---- MODULE Spec2Model ----
(***************************************************************************)
(* Model of src/main.py: the /api/user_events endpoint, the schedule       *)
(* fetcher/dispatcher, the exact-window evaluator, the daily-schedule      *)
(* evaluator and the inline duration formatter.                            *)
(*                                                                         *)
(* Conventions.                                                            *)
(*  - An instant (datetime, UTC) is an integer number of milliseconds      *)
(*    since the epoch; a time of day (datetime.time) is a number of        *)
(*    milliseconds since midnight; a date is a day number.                 *)
(*  - A Python str is a sequence of one-character strings.  The Cyrillic   *)
(*    unit letters of the formatter are written by their Unicode names:    *)
(*    "CHE" (U+0447), "EM" (U+043C), "ES" (U+0441); any other character    *)
(*    outside ASCII is written by its code point, "U+0660".                *)
(*  - A Python dict is a function whose DOMAIN is its set of keys, so      *)
(*    `k in d` is  k \in DOMAIN d  and d.get(k) of an absent key is None.  *)
(*  - A JSON number n is [int |-> n]; a JSON string s is [str |-> s].      *)
(*  - What the endpoint returns is [dict |-> d] for a dict d and           *)
(*    [tuple |-> t] for a tuple t.                                         *)
(***************************************************************************)
EXTENDS Integers, Sequences, FiniteSets, TLC

(***************************************************************************)
(* Program constants.                                                      *)
(***************************************************************************)
MsPerSecond == 1000
SecondsPerHour == 3600
SecondsPerMinute == 60
MinutesPerHour == 60
HoursPerDay == 24

MsPerMinute == SecondsPerMinute * MsPerSecond
MsPerHour == MinutesPerHour * MsPerMinute
\* timedelta(days=1)
MsPerDay == HoursPerDay * MsPerHour

(***************************************************************************)
(* Bounds of the model.                                                    *)
(***************************************************************************)
\* largest number of whole seconds given to the formatter on its own
MaxSeconds == 3700
\* largest number of events in a fetched list, and of time windows in it
MaxItems == 2

(***************************************************************************)
(* Strings.                                                                *)
(***************************************************************************)
Digits == <<"0", "1", "2", "3", "4", "5", "6", "7", "8", "9">>

\* the characters '0'..'9' between lo and hi: a class [lo-hi] of a pattern
IsAsciiDigit(c, lo, hi) == \E d \in lo..hi : Digits[d + 1] = c

\* the decimal digits of Unicode (category Nd), a run of ten per script,
\* each run in the order of its values 0..9
DecimalDigits ==
    <<Digits,
    <<"U+0660", "U+0661", "U+0662", "U+0663", "U+0664",
      "U+0665", "U+0666", "U+0667", "U+0668", "U+0669">>,
    <<"U+06F0", "U+06F1", "U+06F2", "U+06F3", "U+06F4",
      "U+06F5", "U+06F6", "U+06F7", "U+06F8", "U+06F9">>,
    <<"U+07C0", "U+07C1", "U+07C2", "U+07C3", "U+07C4",
      "U+07C5", "U+07C6", "U+07C7", "U+07C8", "U+07C9">>,
    <<"U+0966", "U+0967", "U+0968", "U+0969", "U+096A",
      "U+096B", "U+096C", "U+096D", "U+096E", "U+096F">>,
    <<"U+09E6", "U+09E7", "U+09E8", "U+09E9", "U+09EA",
      "U+09EB", "U+09EC", "U+09ED", "U+09EE", "U+09EF">>,
    <<"U+0A66", "U+0A67", "U+0A68", "U+0A69", "U+0A6A",
      "U+0A6B", "U+0A6C", "U+0A6D", "U+0A6E", "U+0A6F">>,
    <<"U+0AE6", "U+0AE7", "U+0AE8", "U+0AE9", "U+0AEA",
      "U+0AEB", "U+0AEC", "U+0AED", "U+0AEE", "U+0AEF">>,
    <<"U+0B66", "U+0B67", "U+0B68", "U+0B69", "U+0B6A",
      "U+0B6B", "U+0B6C", "U+0B6D", "U+0B6E", "U+0B6F">>,
    <<"U+0BE6", "U+0BE7", "U+0BE8", "U+0BE9", "U+0BEA",
      "U+0BEB", "U+0BEC", "U+0BED", "U+0BEE", "U+0BEF">>,
    <<"U+0C66", "U+0C67", "U+0C68", "U+0C69", "U+0C6A",
      "U+0C6B", "U+0C6C", "U+0C6D", "U+0C6E", "U+0C6F">>,
    <<"U+0CE6", "U+0CE7", "U+0CE8", "U+0CE9", "U+0CEA",
      "U+0CEB", "U+0CEC", "U+0CED", "U+0CEE", "U+0CEF">>,
    <<"U+0D66", "U+0D67", "U+0D68", "U+0D69", "U+0D6A",
      "U+0D6B", "U+0D6C", "U+0D6D", "U+0D6E", "U+0D6F">>,
    <<"U+0DE6", "U+0DE7", "U+0DE8", "U+0DE9", "U+0DEA",
      "U+0DEB", "U+0DEC", "U+0DED", "U+0DEE", "U+0DEF">>,
    <<"U+0E50", "U+0E51", "U+0E52", "U+0E53", "U+0E54",
      "U+0E55", "U+0E56", "U+0E57", "U+0E58", "U+0E59">>,
    <<"U+0ED0", "U+0ED1", "U+0ED2", "U+0ED3", "U+0ED4",
      "U+0ED5", "U+0ED6", "U+0ED7", "U+0ED8", "U+0ED9">>,
    <<"U+0F20", "U+0F21", "U+0F22", "U+0F23", "U+0F24",
      "U+0F25", "U+0F26", "U+0F27", "U+0F28", "U+0F29">>,
    <<"U+1040", "U+1041", "U+1042", "U+1043", "U+1044",
      "U+1045", "U+1046", "U+1047", "U+1048", "U+1049">>,
    <<"U+1090", "U+1091", "U+1092", "U+1093", "U+1094",
      "U+1095", "U+1096", "U+1097", "U+1098", "U+1099">>,
    <<"U+17E0", "U+17E1", "U+17E2", "U+17E3", "U+17E4",
      "U+17E5", "U+17E6", "U+17E7", "U+17E8", "U+17E9">>,
    <<"U+1810", "U+1811", "U+1812", "U+1813", "U+1814",
      "U+1815", "U+1816", "U+1817", "U+1818", "U+1819">>,
    <<"U+1946", "U+1947", "U+1948", "U+1949", "U+194A",
      "U+194B", "U+194C", "U+194D", "U+194E", "U+194F">>,
    <<"U+19D0", "U+19D1", "U+19D2", "U+19D3", "U+19D4",
      "U+19D5", "U+19D6", "U+19D7", "U+19D8", "U+19D9">>,
    <<"U+1A80", "U+1A81", "U+1A82", "U+1A83", "U+1A84",
      "U+1A85", "U+1A86", "U+1A87", "U+1A88", "U+1A89">>,
    <<"U+1A90", "U+1A91", "U+1A92", "U+1A93", "U+1A94",
      "U+1A95", "U+1A96", "U+1A97", "U+1A98", "U+1A99">>,
    <<"U+1B50", "U+1B51", "U+1B52", "U+1B53", "U+1B54",
      "U+1B55", "U+1B56", "U+1B57", "U+1B58", "U+1B59">>,
    <<"U+1BB0", "U+1BB1", "U+1BB2", "U+1BB3", "U+1BB4",
      "U+1BB5", "U+1BB6", "U+1BB7", "U+1BB8", "U+1BB9">>,
    <<"U+1C40", "U+1C41", "U+1C42", "U+1C43", "U+1C44",
      "U+1C45", "U+1C46", "U+1C47", "U+1C48", "U+1C49">>,
    <<"U+1C50", "U+1C51", "U+1C52", "U+1C53", "U+1C54",
      "U+1C55", "U+1C56", "U+1C57", "U+1C58", "U+1C59">>,
    <<"U+A620", "U+A621", "U+A622", "U+A623", "U+A624",
      "U+A625", "U+A626", "U+A627", "U+A628", "U+A629">>,
    <<"U+A8D0", "U+A8D1", "U+A8D2", "U+A8D3", "U+A8D4",
      "U+A8D5", "U+A8D6", "U+A8D7", "U+A8D8", "U+A8D9">>,
    <<"U+A900", "U+A901", "U+A902", "U+A903", "U+A904",
      "U+A905", "U+A906", "U+A907", "U+A908", "U+A909">>,
    <<"U+A9D0", "U+A9D1", "U+A9D2", "U+A9D3", "U+A9D4",
      "U+A9D5", "U+A9D6", "U+A9D7", "U+A9D8", "U+A9D9">>,
    <<"U+A9F0", "U+A9F1", "U+A9F2", "U+A9F3", "U+A9F4",
      "U+A9F5", "U+A9F6", "U+A9F7", "U+A9F8", "U+A9F9">>,
    <<"U+AA50", "U+AA51", "U+AA52", "U+AA53", "U+AA54",
      "U+AA55", "U+AA56", "U+AA57", "U+AA58", "U+AA59">>,
    <<"U+ABF0", "U+ABF1", "U+ABF2", "U+ABF3", "U+ABF4",
      "U+ABF5", "U+ABF6", "U+ABF7", "U+ABF8", "U+ABF9">>,
    <<"U+FF10", "U+FF11", "U+FF12", "U+FF13", "U+FF14",
      "U+FF15", "U+FF16", "U+FF17", "U+FF18", "U+FF19">>,
    <<"U+104A0", "U+104A1", "U+104A2", "U+104A3", "U+104A4",
      "U+104A5", "U+104A6", "U+104A7", "U+104A8", "U+104A9">>,
    <<"U+10D30", "U+10D31", "U+10D32", "U+10D33", "U+10D34",
      "U+10D35", "U+10D36", "U+10D37", "U+10D38", "U+10D39">>,
    <<"U+11066", "U+11067", "U+11068", "U+11069", "U+1106A",
      "U+1106B", "U+1106C", "U+1106D", "U+1106E", "U+1106F">>,
    <<"U+110F0", "U+110F1", "U+110F2", "U+110F3", "U+110F4",
      "U+110F5", "U+110F6", "U+110F7", "U+110F8", "U+110F9">>,
    <<"U+11136", "U+11137", "U+11138", "U+11139", "U+1113A",
      "U+1113B", "U+1113C", "U+1113D", "U+1113E", "U+1113F">>,
    <<"U+111D0", "U+111D1", "U+111D2", "U+111D3", "U+111D4",
      "U+111D5", "U+111D6", "U+111D7", "U+111D8", "U+111D9">>,
    <<"U+112F0", "U+112F1", "U+112F2", "U+112F3", "U+112F4",
      "U+112F5", "U+112F6", "U+112F7", "U+112F8", "U+112F9">>,
    <<"U+11450", "U+11451", "U+11452", "U+11453", "U+11454",
      "U+11455", "U+11456", "U+11457", "U+11458", "U+11459">>,
    <<"U+114D0", "U+114D1", "U+114D2", "U+114D3", "U+114D4",
      "U+114D5", "U+114D6", "U+114D7", "U+114D8", "U+114D9">>,
    <<"U+11650", "U+11651", "U+11652", "U+11653", "U+11654",
      "U+11655", "U+11656", "U+11657", "U+11658", "U+11659">>,
    <<"U+116C0", "U+116C1", "U+116C2", "U+116C3", "U+116C4",
      "U+116C5", "U+116C6", "U+116C7", "U+116C8", "U+116C9">>,
    <<"U+11730", "U+11731", "U+11732", "U+11733", "U+11734",
      "U+11735", "U+11736", "U+11737", "U+11738", "U+11739">>,
    <<"U+118E0", "U+118E1", "U+118E2", "U+118E3", "U+118E4",
      "U+118E5", "U+118E6", "U+118E7", "U+118E8", "U+118E9">>,
    <<"U+11950", "U+11951", "U+11952", "U+11953", "U+11954",
      "U+11955", "U+11956", "U+11957", "U+11958", "U+11959">>,
    <<"U+11C50", "U+11C51", "U+11C52", "U+11C53", "U+11C54",
      "U+11C55", "U+11C56", "U+11C57", "U+11C58", "U+11C59">>,
    <<"U+11D50", "U+11D51", "U+11D52", "U+11D53", "U+11D54",
      "U+11D55", "U+11D56", "U+11D57", "U+11D58", "U+11D59">>,
    <<"U+11DA0", "U+11DA1", "U+11DA2", "U+11DA3", "U+11DA4",
      "U+11DA5", "U+11DA6", "U+11DA7", "U+11DA8", "U+11DA9">>,
    <<"U+16A60", "U+16A61", "U+16A62", "U+16A63", "U+16A64",
      "U+16A65", "U+16A66", "U+16A67", "U+16A68", "U+16A69">>,
    <<"U+16AC0", "U+16AC1", "U+16AC2", "U+16AC3", "U+16AC4",
      "U+16AC5", "U+16AC6", "U+16AC7", "U+16AC8", "U+16AC9">>,
    <<"U+16B50", "U+16B51", "U+16B52", "U+16B53", "U+16B54",
      "U+16B55", "U+16B56", "U+16B57", "U+16B58", "U+16B59">>,
    <<"U+1D7CE", "U+1D7CF", "U+1D7D0", "U+1D7D1", "U+1D7D2",
      "U+1D7D3", "U+1D7D4", "U+1D7D5", "U+1D7D6", "U+1D7D7">>,
    <<"U+1D7D8", "U+1D7D9", "U+1D7DA", "U+1D7DB", "U+1D7DC",
      "U+1D7DD", "U+1D7DE", "U+1D7DF", "U+1D7E0", "U+1D7E1">>,
    <<"U+1D7E2", "U+1D7E3", "U+1D7E4", "U+1D7E5", "U+1D7E6",
      "U+1D7E7", "U+1D7E8", "U+1D7E9", "U+1D7EA", "U+1D7EB">>,
    <<"U+1D7EC", "U+1D7ED", "U+1D7EE", "U+1D7EF", "U+1D7F0",
      "U+1D7F1", "U+1D7F2", "U+1D7F3", "U+1D7F4", "U+1D7F5">>,
    <<"U+1D7F6", "U+1D7F7", "U+1D7F8", "U+1D7F9", "U+1D7FA",
      "U+1D7FB", "U+1D7FC", "U+1D7FD", "U+1D7FE", "U+1D7FF">>,
    <<"U+1E140", "U+1E141", "U+1E142", "U+1E143", "U+1E144",
      "U+1E145", "U+1E146", "U+1E147", "U+1E148", "U+1E149">>,
    <<"U+1E2F0", "U+1E2F1", "U+1E2F2", "U+1E2F3", "U+1E2F4",
      "U+1E2F5", "U+1E2F6", "U+1E2F7", "U+1E2F8", "U+1E2F9">>,
    <<"U+1E950", "U+1E951", "U+1E952", "U+1E953", "U+1E954",
      "U+1E955", "U+1E956", "U+1E957", "U+1E958", "U+1E959">>,
    <<"U+1FBF0", "U+1FBF1", "U+1FBF2", "U+1FBF3", "U+1FBF4",
      "U+1FBF5", "U+1FBF6", "U+1FBF7", "U+1FBF8", "U+1FBF9">>>>

\* \d of a str pattern: any decimal digit of Unicode
IsDigit(c) == \E r \in 1..Len(DecimalDigits) : \E d \in 1..10 : DecimalDigits[r][d] = c

\* int(c) of a decimal digit
DigitVal(c) ==
    LET r == CHOOSE q \in 1..Len(DecimalDigits) : \E d \in 1..10 : DecimalDigits[q][d] = c
    IN (CHOOSE d \in 1..10 : DecimalDigits[r][d] = c) - 1

\* f"{n}" of a non-negative int: its decimal digits
RECURSIVE Dec(_)
Dec(n) == IF n < 10 THEN <<Digits[n + 1]>>
          ELSE Dec(n \div 10) \o <<Digits[(n % 10) + 1]>>

\* " ".join(time_parts)
RECURSIVE JoinSpace(_)
JoinSpace(parts) ==
    IF parts = <<>> THEN <<>>
    ELSE IF Len(parts) = 1 THEN parts[1]
    ELSE parts[1] \o <<" ">> \o JoinSpace(Tail(parts))

\* int(delta.total_seconds()): truncation toward zero of delta / 1 second
TotalSeconds(delta) ==
    IF delta >= 0 THEN delta \div MsPerSecond
    ELSE -((-delta) \div MsPerSecond)

(***************************************************************************)
(* The duration formatter, one definition per inline copy in the source.   *)
(* divmod is Python's floor division, which \div and % are.                *)
(***************************************************************************)
\* a formatter that appends the seconds only when they are positive
FormatDropSeconds(total_seconds) ==
    LET hours == total_seconds \div SecondsPerHour
        remainder == total_seconds % SecondsPerHour
        minutes == remainder \div SecondsPerMinute
        seconds == remainder % SecondsPerMinute
        p1 == IF hours > 0 THEN <<Dec(hours) \o <<"CHE">>>> ELSE <<>>
        p2 == IF minutes > 0 THEN Append(p1, Dec(minutes) \o <<"EM">>) ELSE p1
        p3 == IF seconds > 0 THEN Append(p2, Dec(seconds) \o <<"ES">>) ELSE p2
    IN JoinSpace(p3)

\* _get_events_exact, active branch
FormatExactActive(total_seconds) ==
    LET hours == total_seconds \div SecondsPerHour
        remainder == total_seconds % SecondsPerHour
        minutes == remainder \div SecondsPerMinute
        seconds == remainder % SecondsPerMinute
        p1 == IF hours > 0 THEN <<Dec(hours) \o <<"CHE">>>> ELSE <<>>
        p2 == IF minutes > 0 THEN Append(p1, Dec(minutes) \o <<"EM">>) ELSE p1
        p3 == IF seconds > 0 \/ p2 = <<>>
              THEN Append(p2, Dec(seconds) \o <<"ES">>) ELSE p2
    IN JoinSpace(p3)

\* _get_events_exact, upcoming branch
FormatExactUpcoming(total_seconds) ==
    LET hours == total_seconds \div SecondsPerHour
        remainder == total_seconds % SecondsPerHour
        minutes == remainder \div SecondsPerMinute
        seconds == remainder % SecondsPerMinute
        p1 == IF hours > 0 THEN <<Dec(hours) \o <<"CHE">>>> ELSE <<>>
        p2 == IF minutes > 0 THEN Append(p1, Dec(minutes) \o <<"EM">>) ELSE p1
        p3 == IF seconds > 0 \/ p2 = <<>>
              THEN Append(p2, Dec(seconds) \o <<"ES">>) ELSE p2
    IN JoinSpace(p3)

\* _get_events_schedule, active branch of a same-day or sentinel window
FormatScheduleToday(total_seconds) ==
    LET hours == total_seconds \div SecondsPerHour
        remainder == total_seconds % SecondsPerHour
        minutes == remainder \div SecondsPerMinute
        seconds == remainder % SecondsPerMinute
        p1 == IF hours > 0 THEN <<Dec(hours) \o <<"CHE">>>> ELSE <<>>
        p2 == IF minutes > 0 THEN Append(p1, Dec(minutes) \o <<"EM">>) ELSE p1
        p3 == IF seconds > 0 \/ p2 = <<>>
              THEN Append(p2, Dec(seconds) \o <<"ES">>) ELSE p2
    IN JoinSpace(p3)

\* _get_events_schedule, active branch of an overnight window
FormatScheduleOvernight(total_seconds) ==
    LET hours == total_seconds \div SecondsPerHour
        remainder == total_seconds % SecondsPerHour
        minutes == remainder \div SecondsPerMinute
        seconds == remainder % SecondsPerMinute
        p1 == IF hours > 0 THEN <<Dec(hours) \o <<"CHE">>>> ELSE <<>>
        p2 == IF minutes > 0 THEN Append(p1, Dec(minutes) \o <<"EM">>) ELSE p1
        p3 == IF seconds > 0 \/ p2 = <<>>
              THEN Append(p2, Dec(seconds) \o <<"ES">>) ELSE p2
    IN JoinSpace(p3)

\* _get_events_schedule, upcoming branch
FormatScheduleUpcoming(total_seconds) ==
    LET hours == total_seconds \div SecondsPerHour
        remainder == total_seconds % SecondsPerHour
        minutes == remainder \div SecondsPerMinute
        seconds == remainder % SecondsPerMinute
        p1 == IF hours > 0 THEN <<Dec(hours) \o <<"CHE">>>> ELSE <<>>
        p2 == IF minutes > 0 THEN Append(p1, Dec(minutes) \o <<"EM">>) ELSE p1
        p3 == IF seconds > 0 \/ p2 = <<>>
              THEN Append(p2, Dec(seconds) \o <<"ES">>) ELSE p2
    IN JoinSpace(p3)

(***************************************************************************)
(* Dates and times.                                                        *)
(***************************************************************************)
\* current_time_utc.date()
DateOf(instant) == instant \div MsPerDay

\* current_time_utc.time()
TimeOf(instant) == instant % MsPerDay

\* datetime.combine(date, time).replace(tzinfo=timezone.utc)
Combine(date, time) == date * MsPerDay + time

\* datetime.fromtimestamp(timestamp_ms / 1000, tz=timezone.utc)
FromTimestamp(timestamp_ms) == timestamp_ms

\* the literal end string of the end-of-day sentinel
Sentinel == <<"2", "4", ":", "0", "0">>

\* datetime.strptime(s, '%H:%M').time().  The pattern of the format is
\* (?P<H>2[0-3]|[0-1]\d|\d):(?P<M>[0-5]\d|\d), matched at the start of s, its
\* alternatives tried in order; the match must end where s ends, and each
\* group is converted by int().  ok = FALSE stands for ValueError.
Strptime(s) ==
    LET h_len == IF /\ Len(s) >= 3
                    /\ s[1] = "2"
                    /\ IsAsciiDigit(s[2], 0, 3)
                    /\ s[3] = ":"
                 THEN 2
                 ELSE IF /\ Len(s) >= 3
                         /\ IsAsciiDigit(s[1], 0, 1)
                         /\ IsDigit(s[2])
                         /\ s[3] = ":"
                 THEN 2
                 ELSE IF Len(s) >= 2 /\ IsDigit(s[1]) /\ s[2] = ":"
                 THEN 1
                 ELSE 0
        rest == SubSeq(s, h_len + 2, Len(s))
        m_len == IF Len(rest) >= 2 /\ IsAsciiDigit(rest[1], 0, 5) /\ IsDigit(rest[2])
                 THEN 2
                 ELSE IF Len(rest) >= 1 /\ IsDigit(rest[1])
                 THEN 1
                 ELSE 0
        ToInt(x) == IF Len(x) = 1 THEN DigitVal(x[1])
                  ELSE 10 * DigitVal(x[1]) + DigitVal(x[2])
    IN IF h_len = 0 \/ m_len = 0 \/ m_len # Len(rest)
       THEN [ok |-> FALSE, time |-> 0]
       ELSE [ok |-> TRUE,
             time |-> ToInt(SubSeq(s, 1, h_len)) * MsPerHour + ToInt(rest) * MsPerMinute]

(***************************************************************************)
(* Dicts and JSON values.                                                  *)
(***************************************************************************)
\* d.get(key, default) for a key whose values are names
Get(d, key, default) == IF key \in DOMAIN d THEN d[key] ELSE default

\* `not time_window.get(key)`: the key is absent or its string is empty
FalsyStr(d, key) == key \notin DOMAIN d \/ d[key] = <<>>

\* a test for None in place of the test for a falsy value
AbsentValue(d, key) == key \notin DOMAIN d

\* `not event_obj.get(key)`: absent, the number 0 or the empty string
FalsyValue(d, key) ==
    \/ key \notin DOMAIN d
    \/ "int" \in DOMAIN d[key] /\ d[key].int = 0
    \/ "str" \in DOMAIN d[key] /\ d[key].str = <<>>

\* timestamp_ms / 1000 raises TypeError unless the value is a number
Convertible(v) == "int" \in DOMAIN v

\* one element of active_events or upcoming_events
Entry(name, location, time_left) ==
    [name |-> name, location |-> location, time_left |-> time_left]

(***************************************************************************)
(* _get_events_exact: the body of the loop for one event.  The result is   *)
(* the entries it appends to each bucket.                                  *)
(***************************************************************************)
\* an evaluator for which an event is still active at its end
ExactEventInclusiveEnd(event_obj, now) ==
    LET name == Get(event_obj, "name", "Unknown Event")
        location == Get(event_obj, "map", "Unknown Location")
        none == [active |-> <<>>, upcoming |-> <<>>]
    IN IF FalsyValue(event_obj, "startTime") \/ FalsyValue(event_obj, "endTime")
       THEN none
       ELSE IF ~Convertible(event_obj.startTime) \/ ~Convertible(event_obj.endTime)
       THEN none
       ELSE LET start_dt == FromTimestamp(event_obj.startTime.int)
                end_dt == FromTimestamp(event_obj.endTime.int)
            IN IF start_dt <= now /\ now <= end_dt
               THEN [active |-> <<Entry(name, location,
                         FormatExactActive(TotalSeconds(end_dt - now)))>>,
                     upcoming |-> <<>>]
               ELSE IF start_dt > now
               THEN [active |-> <<>>,
                     upcoming |-> <<Entry(name, location,
                         FormatExactUpcoming(TotalSeconds(start_dt - now)))>>]
               ELSE none

\* an evaluator for which an event that starts now is still upcoming
ExactEventUpcomingAtStart(event_obj, now) ==
    LET name == Get(event_obj, "name", "Unknown Event")
        location == Get(event_obj, "map", "Unknown Location")
        none == [active |-> <<>>, upcoming |-> <<>>]
    IN IF FalsyValue(event_obj, "startTime") \/ FalsyValue(event_obj, "endTime")
       THEN none
       ELSE IF ~Convertible(event_obj.startTime) \/ ~Convertible(event_obj.endTime)
       THEN none
       ELSE LET start_dt == FromTimestamp(event_obj.startTime.int)
                end_dt == FromTimestamp(event_obj.endTime.int)
            IN IF start_dt <= now /\ now < end_dt
               THEN [active |-> <<Entry(name, location,
                         FormatExactActive(TotalSeconds(end_dt - now)))>>,
                     upcoming |-> <<>>]
               ELSE IF start_dt >= now
               THEN [active |-> <<>>,
                     upcoming |-> <<Entry(name, location,
                         FormatExactUpcoming(TotalSeconds(start_dt - now)))>>]
               ELSE none

ExactEvent(event_obj, now) ==
    LET name == Get(event_obj, "name", "Unknown Event")
        location == Get(event_obj, "map", "Unknown Location")
        none == [active |-> <<>>, upcoming |-> <<>>]
    IN IF FalsyValue(event_obj, "startTime") \/ FalsyValue(event_obj, "endTime")
       THEN none
       ELSE IF ~Convertible(event_obj.startTime) \/ ~Convertible(event_obj.endTime)
       THEN none
       ELSE LET start_dt == FromTimestamp(event_obj.startTime.int)
                end_dt == FromTimestamp(event_obj.endTime.int)
            IN IF start_dt <= now /\ now < end_dt
               THEN [active |-> <<Entry(name, location,
                         FormatExactActive(TotalSeconds(end_dt - now)))>>,
                     upcoming |-> <<>>]
               ELSE IF start_dt > now
               THEN [active |-> <<>>,
                     upcoming |-> <<Entry(name, location,
                         FormatExactUpcoming(TotalSeconds(start_dt - now)))>>]
               ELSE none

(***************************************************************************)
(* _get_events_schedule: the body of the inner loop for one time window.   *)
(* end_time_for_comparison is a local of the function, assigned only when  *)
(* a window's end is not the sentinel: [bound |-> FALSE] until then, and   *)
(* the value a previous window left afterwards.                            *)
(***************************************************************************)
Unbound == [bound |-> FALSE, time |-> 0]

\* start_time <= end_time_for_comparison or is_end_midnight_next_day
IsSameDayShape(start_time, end_time, is_end_midnight_next_day) ==
    start_time <= end_time \/ is_end_midnight_next_day

\* is_active of a same-day or sentinel window
IsActiveToday(start_time, end_time, is_end_midnight_next_day, current_time_only) ==
    IF is_end_midnight_next_day
    THEN start_time <= current_time_only
    ELSE start_time <= current_time_only /\ current_time_only < end_time

\* the condition of the overnight branch
IsActiveOvernight(start_time, end_time, current_time_only) ==
    current_time_only >= start_time \/ current_time_only < end_time

\* end_datetime of an active same-day or sentinel window
EndToday(end_time, is_end_midnight_next_day, current_date_utc) ==
    IF is_end_midnight_next_day
    THEN Combine(current_date_utc + 1, 0)
    ELSE Combine(current_date_utc, end_time)

\* an overnight end that is always tomorrow's
EndOvernightAlwaysTomorrow(start_time, end_time, current_time_only, current_date_utc) ==
    Combine(current_date_utc + 1, end_time)

\* end_datetime of an active overnight window
EndOvernight(start_time, end_time, current_time_only, current_date_utc) ==
    IF current_time_only >= start_time
    THEN Combine(current_date_utc + 1, end_time)
    ELSE Combine(current_date_utc, end_time)

\* a next start that is always today's
NextStartToday(start_time, end_time, is_end_midnight_next_day, current_time_only, current_date_utc) ==
    [at |-> Combine(current_date_utc, start_time), branch |-> "today"]

\* start_datetime of a window that is not active, with the branch taken
NextStart(start_time, end_time, is_end_midnight_next_day, current_time_only, current_date_utc) ==
    IF IsSameDayShape(start_time, end_time, is_end_midnight_next_day)
    THEN IF is_end_midnight_next_day
         THEN IF current_time_only < start_time
              THEN [at |-> Combine(current_date_utc, start_time),
                    branch |-> "sentinel-today"]
              ELSE [at |-> Combine(current_date_utc + 1, start_time),
                    branch |-> "sentinel-tomorrow"]
         ELSE IF start_time > current_time_only
              THEN [at |-> Combine(current_date_utc, start_time),
                    branch |-> "sameday-today"]
              ELSE [at |-> Combine(current_date_utc + 1, start_time),
                    branch |-> "sameday-tomorrow"]
    ELSE IF current_time_only < start_time /\ current_time_only >= end_time
         THEN [at |-> Combine(current_date_utc, start_time),
               branch |-> "overnight-today"]
         ELSE [at |-> Combine(current_date_utc + 1, start_time),
               branch |-> "overnight-tomorrow"]

\* The result: the entries appended to each bucket, the value of
\* end_time_for_comparison afterwards, the branch taken and the time
\* difference handed to total_seconds().
ScheduleWindow(name, location, time_window, now, end_time_for_comparison) ==
    LET current_date_utc == DateOf(now)
        current_time_only == TimeOf(now)
        Skip(why, etfc) == [active |-> <<>>, upcoming |-> <<>>, etfc |-> etfc,
                            branch |-> why, delta |-> 0]
    IN IF FalsyStr(time_window, "start") \/ FalsyStr(time_window, "end")
       THEN Skip("missing", end_time_for_comparison)
       ELSE LET start_str == time_window.start
                end_str == time_window.end
                start_parsed == Strptime(start_str)
                start_time == start_parsed.time
                is_end_midnight_next_day == (end_str = Sentinel)
                end_parsed == Strptime(end_str)
                etfc == IF is_end_midnight_next_day THEN end_time_for_comparison
                        ELSE [bound |-> TRUE, time |-> end_parsed.time]
                end_time == etfc.time
            IN IF ~start_parsed.ok
               THEN Skip("start-error", end_time_for_comparison)
               ELSE IF ~is_end_midnight_next_day /\ ~end_parsed.ok
               THEN Skip("end-error", end_time_for_comparison)
               ELSE IF ~etfc.bound
               THEN Skip("unbound-error", etfc)
               ELSE IF /\ IsSameDayShape(start_time, end_time, is_end_midnight_next_day)
                       /\ IsActiveToday(start_time, end_time, is_end_midnight_next_day,
                                        current_time_only)
               THEN LET delta == EndToday(end_time, is_end_midnight_next_day,
                                          current_date_utc) - now
                    IN [active |-> <<Entry(name, location,
                                     FormatScheduleToday(TotalSeconds(delta)))>>,
                        upcoming |-> <<>>, etfc |-> etfc,
                        branch |-> "active-today", delta |-> delta]
               ELSE IF /\ ~IsSameDayShape(start_time, end_time, is_end_midnight_next_day)
                       /\ IsActiveOvernight(start_time, end_time, current_time_only)
               THEN LET delta == EndOvernight(start_time, end_time, current_time_only,
                                              current_date_utc) - now
                    IN [active |-> <<Entry(name, location,
                                     FormatScheduleOvernight(TotalSeconds(delta)))>>,
                        upcoming |-> <<>>, etfc |-> etfc,
                        branch |-> "active-overnight", delta |-> delta]
               ELSE LET next == NextStart(start_time, end_time, is_end_midnight_next_day,
                                          current_time_only, current_date_utc)
                        delta == next.at - now
                    IN [active |-> <<>>,
                        upcoming |-> <<Entry(name, location,
                                       FormatScheduleUpcoming(TotalSeconds(delta)))>>,
                        etfc |-> etfc, branch |-> next.branch, delta |-> delta]

(***************************************************************************)
(* get_arc_raiders_events_from_api_schedule and api_user_events.           *)
(***************************************************************************)
\* data.get('data', [])
DataOf(body) == IF "data" \in DOMAIN body THEN body.data ELSE <<>>

\* a dispatcher that looks for the times key first
RouteTimesFirst(events) ==
    IF events # <<>> /\ "times" \in DOMAIN events[1]
    THEN "schedule"
    ELSE IF events # <<>> /\ "startTime" \in DOMAIN events[1]
                          /\ "endTime" \in DOMAIN events[1]
    THEN "exact"
    ELSE "none"

\* the evaluator the if/elif/else on raw_events[0] selects
Route(events) ==
    IF events # <<>> /\ "startTime" \in DOMAIN events[1]
                     /\ "endTime" \in DOMAIN events[1]
    THEN "exact"
    ELSE IF events # <<>> /\ "times" \in DOMAIN events[1]
    THEN "schedule"
    ELSE "none"

\* a dispatcher whose handlers let a decoding error through
OnFetchErrorReraise(kind) ==
    [raised |-> kind = "decode", active |-> <<>>, upcoming |-> <<>>]

\* the two except clauses of the dispatcher: what the call yields when
\* requests.get, raise_for_status or response.json() raises
OnFetchError(kind) == [raised |-> FALSE, active |-> <<>>, upcoming |-> <<>>]

\* api_user_events: the dict it returns, or in its except branch the tuple
\* of the error payload and 500
Endpoint(outcome) ==
    IF outcome.raised
    THEN [tuple |-> <<[error |-> "Internal Server Error"], 500>>]
    ELSE [dict |-> [active |-> outcome.active, upcoming |-> outcome.upcoming]]

(***************************************************************************)
(* Inputs: the instants of a request and the lists the source may return.  *)
(***************************************************************************)
\* the day number of the date of the request
Today == 2

At(h, m, sec, ms) == h * MsPerHour + m * MsPerMinute + sec * MsPerSecond + ms

\* the reference instant T of the exact-window examples: 09:00:00 today
T0 == Combine(Today, At(9, 0, 0, 0))

ExactNows == {T0 - 10 * MsPerSecond, T0, T0 + 50 * MsPerSecond}

ScheduleNows ==
    {Combine(Today, t) : t \in {At(0, 30, 0, 0), At(9, 0, 0, 0), At(9, 59, 59, 500),
                                At(10, 0, 0, 0), At(22, 0, 0, 0), At(23, 59, 0, 0)}}

\* a dict with no key
NoKey == <<>>

StartTimeParts ==
    {NoKey} \cup {"startTime" :> v : v \in {[int |-> 0], [int |-> T0 - 10 * MsPerSecond],
                                            [int |-> T0 + 5500], [str |-> <<"x">>]}}

EndTimeParts ==
    {NoKey} \cup {"endTime" :> v : v \in {[int |-> T0 - 10 * MsPerSecond],
                                          [int |-> T0 + 50 * MsPerSecond],
                                          [str |-> <<"x">>]}}

ExactParts == {s @@ e : s \in StartTimeParts, e \in EndTimeParts}

StartStrs == {<<"1", "0", ":", "0", "0">>, <<"2", "3", ":", "0", "0">>}

EndStrs == {<<"0", "1", ":", "0", "0">>, <<"2", "3", ":", "0", "0">>, Sentinel}

\* a window whose start is "10:00" written with an ARABIC-INDIC DIGIT ZERO,
\* which strptime reads as 10:00
OtherDigitWindows ==
    {("start" :> <<"1", "U+0660", ":", "0", "0">>) @@ ("end" :> <<"2", "3", ":", "0", "0">>)}

\* windows with a missing start, a missing end, a start and an end that
\* strptime rejects, the last a start "20:00" written with an ARABIC-INDIC
\* DIGIT ZERO
SkippedWindows ==
    {"end" :> <<"2", "3", ":", "0", "0">>,
     "start" :> <<"1", "0", ":", "0", "0">>,
     ("start" :> Sentinel) @@ ("end" :> <<"0", "1", ":", "0", "0">>),
     ("start" :> <<"1", "0", ":", "0", "0">>) @@ ("end" :> <<"2", "5", ":", "0", "0">>),
     ("start" :> <<"2", "U+0660", ":", "0", "0">>) @@ ("end" :> <<"2", "3", ":", "0", "0">>)}

Windows ==
    {("start" :> s) @@ ("end" :> e) : s \in StartStrs, e \in EndStrs}
    \cup OtherDigitWindows
    \cup SkippedWindows

\* name and map of the event at position k of a list; the second has neither
NameParts(k) ==
    IF k = 1 THEN ("name" :> "Harvester") @@ ("map" :> "Dam")
    ELSE IF k = 2 THEN NoKey
    ELSE ("name" :> "Matriarch") @@ ("map" :> "Spaceport")

RECURSIVE Pick(_, _, _)
Pick(ws, g, k) ==
    IF ws = <<>> THEN <<>>
    ELSE (IF Head(g) = k THEN <<Head(ws)>> ELSE <<>>) \o Pick(Tail(ws), Tail(g), k)

\* lists of exact-format events
ExactLists ==
    UNION {{[k \in 1..n |-> f[k] @@ NameParts(k)] : f \in [1..n -> ExactParts]}
           : n \in 0..MaxItems}

\* lists of one or two scheduled events sharing at most MaxItems windows
ScheduleLists ==
    UNION {UNION {{[k \in 1..len |-> ("times" :> Pick(ws, g, k)) @@ NameParts(k)]
                   : g \in {h \in [1..n -> 1..len] :
                              \A a, b \in 1..n : a < b => h[a] <= h[b]}}
                  : ws \in [1..n -> Windows]}
           : n \in 0..MaxItems, len \in 1..2}

\* lists whose elements differ in shape, and elements of both shapes
MixedLists ==
    LET x == ("startTime" :> [int |-> T0 - 10 * MsPerSecond])
             @@ ("endTime" :> [int |-> T0 + 50 * MsPerSecond])
        t == "times" :> <<("start" :> <<"1", "0", ":", "0", "0">>)
                          @@ ("end" :> <<"2", "3", ":", "0", "0">>)>>
    IN {<<x @@ NameParts(1), t @@ NameParts(2)>>,
        <<t @@ NameParts(1), x @@ NameParts(2)>>,
        <<x @@ t @@ NameParts(1), t @@ NameParts(2)>>,
        <<("startTime" :> [int |-> T0]) @@ t @@ NameParts(1), x @@ NameParts(2)>>,
        <<NameParts(1), x @@ NameParts(2)>>}

\* the decoded bodies: an object with or without the key "data"
Bodies == {NoKey} \cup {"data" :> l : l \in ExactLists \cup ScheduleLists \cup MixedLists}

FetchErrors == {"transport", "status", "decode"}

(***************************************************************************)
(* The evaluators as functions of the whole list (the loops).              *)
(***************************************************************************)
\* event_obj.get('times', [])
TimesOf(event_obj) == IF "times" \in DOMAIN event_obj THEN event_obj.times ELSE <<>>

\* _get_events_exact(raw_events) at the instant now
RECURSIVE get_events_exact(_, _)
get_events_exact(events, now) ==
    IF events = <<>> THEN [active |-> <<>>, upcoming |-> <<>>]
    ELSE LET before == get_events_exact(SubSeq(events, 1, Len(events) - 1), now)
             r == ExactEvent(events[Len(events)], now)
         IN [active |-> before.active \o r.active,
             upcoming |-> before.upcoming \o r.upcoming]

\* the inner loop of _get_events_schedule over the first n windows of one
\* event, from the buckets and the end_time_for_comparison in acc
RECURSIVE ScheduleWindows(_, _, _, _)
ScheduleWindows(event_obj, n, now, acc) ==
    IF n = 0 THEN acc
    ELSE LET before == ScheduleWindows(event_obj, n - 1, now, acc)
             r == ScheduleWindow(Get(event_obj, "name", "Unknown Event"),
                                 Get(event_obj, "map", "Unknown Location"),
                                 TimesOf(event_obj)[n], now, before.etfc)
         IN [active |-> before.active \o r.active,
             upcoming |-> before.upcoming \o r.upcoming,
             etfc |-> r.etfc]

\* _get_events_schedule(raw_events) at the instant now
RECURSIVE get_events_schedule(_, _)
get_events_schedule(events, now) ==
    IF events = <<>> THEN [active |-> <<>>, upcoming |-> <<>>, etfc |-> Unbound]
    ELSE LET last == events[Len(events)]
         IN ScheduleWindows(last, Len(TimesOf(last)), now,
                get_events_schedule(SubSeq(events, 1, Len(events) - 1), now))

(***************************************************************************)
(* The state of one request.                                               *)
(***************************************************************************)
VARIABLES
    pc,                       \* where the request is
    fetches,                  \* the number of calls of requests.get
    fetched,                  \* how the fetch ended: "ok" or the error
    raw_events,               \* the list the dispatcher examines
    evaluator,                \* the evaluator invoked, "none" if neither
    current_time_utc,         \* datetime.now(timezone.utc) of the evaluator
    i,                        \* the position in raw_events of the loop
    j,                        \* the position in times_list of the inner loop
    active_events,
    upcoming_events,
    end_time_for_comparison,  \* the local of _get_events_schedule
    outcome,                  \* what the dispatcher's call yields
    response,                 \* what the endpoint returns
    total_seconds,            \* the formatter on its own: its input
    time_left_strs            \* and the output of each inline copy

requestVars_but_pc == <<fetches, fetched, raw_events, evaluator, current_time_utc, i, j,
                       active_events, upcoming_events, end_time_for_comparison,
                       outcome, response>>

requestVars == <<pc, requestVars_but_pc>>

formatVars == <<total_seconds, time_left_strs>>

vars == <<requestVars, formatVars>>

NoOutcome == [raised |-> FALSE, active |-> <<>>, upcoming |-> <<>>]

InitRequest ==
    /\ fetches = 0
    /\ fetched = "none"
    /\ raw_events = <<>>
    /\ evaluator = "none"
    /\ current_time_utc = 0
    /\ i = 1
    /\ j = 1
    /\ active_events = <<>>
    /\ upcoming_events = <<>>
    /\ end_time_for_comparison = Unbound
    /\ outcome = NoOutcome
    /\ response = NoKey

Init ==
    /\ pc = "start"
    /\ InitRequest
    /\ total_seconds = 0
    /\ time_left_strs = <<>>

\* requests.get, raise_for_status or response.json() raises: the except
\* clause yields the call's outcome
FetchFails ==
    /\ pc = "start"
    /\ \E kind \in FetchErrors :
           /\ fetched' = kind
           /\ outcome' = OnFetchError(kind)
    /\ fetches' = fetches + 1
    /\ pc' = "returned"
    /\ UNCHANGED <<raw_events, evaluator, current_time_utc, i, j, active_events,
                   upcoming_events, end_time_for_comparison, response, formatVars>>

\* the fetch succeeds and the body decodes
FetchOk ==
    /\ pc = "start"
    /\ \E body \in Bodies : raw_events' = DataOf(body)
    /\ fetched' = "ok"
    /\ fetches' = fetches + 1
    /\ pc' = "dispatch"
    /\ UNCHANGED <<evaluator, current_time_utc, i, j, active_events, upcoming_events,
                   end_time_for_comparison, outcome, response, formatVars>>

\* the if/elif on the first element: an evaluator is entered and reads the clock
Dispatch ==
    /\ pc = "dispatch"
    /\ Route(raw_events) # "none"
    /\ evaluator' = Route(raw_events)
    /\ pc' = Route(raw_events)
    /\ \E now \in IF Route(raw_events) = "exact" THEN ExactNows ELSE ScheduleNows :
           current_time_utc' = now
    /\ UNCHANGED <<fetches, fetched, raw_events, i, j, active_events, upcoming_events,
                   end_time_for_comparison, outcome, response, formatVars>>

\* the else branch: return [], []
DispatchUnknown ==
    /\ pc = "dispatch"
    /\ Route(raw_events) = "none"
    /\ outcome' = [raised |-> FALSE, active |-> <<>>, upcoming |-> <<>>]
    /\ pc' = "returned"
    /\ UNCHANGED <<fetches, fetched, raw_events, evaluator, current_time_utc, i, j,
                   active_events, upcoming_events, end_time_for_comparison, response,
                   formatVars>>

\* one iteration of the loop of _get_events_exact
ExactStep ==
    /\ pc = "exact"
    /\ i <= Len(raw_events)
    /\ LET r == ExactEvent(raw_events[i], current_time_utc)
       IN /\ active_events' = active_events \o r.active
          /\ upcoming_events' = upcoming_events \o r.upcoming
    /\ i' = i + 1
    /\ UNCHANGED <<pc, fetches, fetched, raw_events, evaluator, current_time_utc, j,
                   end_time_for_comparison, outcome, response, formatVars>>

\* one iteration of the inner loop of _get_events_schedule
ScheduleStep ==
    /\ pc = "schedule"
    /\ i <= Len(raw_events)
    /\ j <= Len(TimesOf(raw_events[i]))
    /\ LET event_obj == raw_events[i]
           r == ScheduleWindow(Get(event_obj, "name", "Unknown Event"),
                               Get(event_obj, "map", "Unknown Location"),
                               TimesOf(event_obj)[j], current_time_utc,
                               end_time_for_comparison)
       IN /\ active_events' = active_events \o r.active
          /\ upcoming_events' = upcoming_events \o r.upcoming
          /\ end_time_for_comparison' = r.etfc
    /\ j' = j + 1
    /\ UNCHANGED <<pc, fetches, fetched, raw_events, evaluator, current_time_utc, i,
                   outcome, response, formatVars>>

\* the inner loop is over: the outer loop takes the next event
ScheduleNextEvent ==
    /\ pc = "schedule"
    /\ i <= Len(raw_events)
    /\ j > Len(TimesOf(raw_events[i]))
    /\ i' = i + 1
    /\ j' = 1
    /\ UNCHANGED <<pc, fetches, fetched, raw_events, evaluator, current_time_utc,
                   active_events, upcoming_events, end_time_for_comparison, outcome,
                   response, formatVars>>

\* the loop of either evaluator is over: return active_events, upcoming_events
EvaluatorReturn ==
    /\ pc \in {"exact", "schedule"}
    /\ i > Len(raw_events)
    /\ outcome' = [raised |-> FALSE, active |-> active_events,
                   upcoming |-> upcoming_events]
    /\ pc' = "returned"
    /\ UNCHANGED <<fetches, fetched, raw_events, evaluator, current_time_utc, i, j,
                   active_events, upcoming_events, end_time_for_comparison, response,
                   formatVars>>

\* api_user_events builds its response
Respond ==
    /\ pc = "returned"
    /\ response' = Endpoint(outcome)
    /\ pc' = "done"
    /\ UNCHANGED <<fetches, fetched, raw_events, evaluator, current_time_utc, i, j,
                   active_events, upcoming_events, end_time_for_comparison, outcome,
                   formatVars>>

Next ==
    \/ FetchFails
    \/ FetchOk
    \/ Dispatch
    \/ DispatchUnknown
    \/ ExactStep
    \/ ScheduleStep
    \/ ScheduleNextEvent
    \/ EvaluatorReturn
    \/ Respond

Spec == Init /\ [][Next]_vars

(***************************************************************************)
(* The formatter on its own: every inline copy applied to one input.       *)
(***************************************************************************)
InitFormat ==
    /\ pc = "format"
    /\ InitRequest
    /\ total_seconds \in 0..MaxSeconds
    /\ time_left_strs = <<>>

FormatAll ==
    /\ pc = "format"
    /\ time_left_strs' = <<FormatExactActive(total_seconds),
                           FormatExactUpcoming(total_seconds),
                           FormatScheduleToday(total_seconds),
                           FormatScheduleOvernight(total_seconds),
                           FormatScheduleUpcoming(total_seconds)>>
    /\ pc' = "formatted"
    /\ UNCHANGED <<requestVars_but_pc, total_seconds>>

NextFormat == FormatAll

SpecFormat == InitFormat /\ [][NextFormat]_vars

(***************************************************************************)
(* What the claims say, stated without the evaluators' code.               *)
(***************************************************************************)
\* the formatter's result as the specification words it
ClaimFormat(n) ==
    LET h == n \div 3600
        m == (n % 3600) \div 60
        sec == n % 60
        hours_token == IF h > 0 THEN <<Dec(h) \o <<"CHE">>>> ELSE <<>>
        minutes_token == IF m > 0 THEN <<Dec(m) \o <<"EM">>>> ELSE <<>>
        seconds_token == IF sec > 0 \/ (h = 0 /\ m = 0)
                         THEN <<Dec(sec) \o <<"ES">>>> ELSE <<>>
    IN JoinSpace(hours_token \o minutes_token \o seconds_token)

\* a string "HH:MM", two decimal digits either side of the colon, as a time
\* of day of the 24-hour clock
ClaimTime(str) ==
    IF /\ Len(str) = 5
       /\ str[3] = ":"
       /\ \A k \in {1, 2, 4, 5} : IsDigit(str[k])
       /\ 10 * DigitVal(str[1]) + DigitVal(str[2]) <= 23
       /\ 10 * DigitVal(str[4]) + DigitVal(str[5]) <= 59
    THEN [ok |-> TRUE,
          time |-> (10 * DigitVal(str[1]) + DigitVal(str[2])) * 3600000
                   + (10 * DigitVal(str[4]) + DigitVal(str[5])) * 60000]
    ELSE [ok |-> FALSE, time |-> 0]

\* the whole seconds of a positive time difference
ClaimSeconds(delta) == delta \div 1000

ClaimName(event_obj) ==
    IF "name" \in DOMAIN event_obj THEN event_obj.name ELSE "Unknown Event"

ClaimLocation(event_obj) ==
    IF "map" \in DOMAIN event_obj THEN event_obj.map ELSE "Unknown Location"

ClaimEntry(event_obj, delta) ==
    [name |-> ClaimName(event_obj), location |-> ClaimLocation(event_obj),
     time_left |-> ClaimFormat(ClaimSeconds(delta))]

\* the inner loop of the daily evaluator is about to evaluate a window
AtWindow ==
    /\ pc = "schedule"
    /\ i <= Len(raw_events)
    /\ j <= Len(TimesOf(raw_events[i]))

\* the window it is about to evaluate
TheWindow == TimesOf(raw_events[i])[j]

\* a string is a parseable HH:MM: it is a time "HH:MM" and the evaluator's
\* parser accepts it
ClaimParseable(str) == ClaimTime(str).ok /\ Strptime(str).ok

\* that window has a parseable start and the sentinel as its end
SentinelWindow(w) ==
    /\ DOMAIN w = {"start", "end"}
    /\ w.end = Sentinel
    /\ ClaimParseable(w.start)

\* that window has a parseable start and end, the end not the sentinel
PlainWindow(w) ==
    /\ DOMAIN w = {"start", "end"}
    /\ w.end # Sentinel
    /\ ClaimParseable(w.start)
    /\ ClaimParseable(w.end)

\* exactly this entry is appended, to the bucket named
Appends(bucket, entry) ==
    IF bucket = "active"
    THEN /\ active_events' = Append(active_events, entry)
         /\ upcoming_events' = upcoming_events
    ELSE /\ upcoming_events' = Append(upcoming_events, entry)
         /\ active_events' = active_events

AppendsNothing ==
    /\ active_events' = active_events
    /\ upcoming_events' = upcoming_events

\* C1 (as claimed): a window whose end is "24:00" and whose start parses
\* yields, at every position of the batch, exactly one entry: active with
\* remaining = tomorrow's midnight - now if start <= now_time, otherwise
\* upcoming with starting-in = today's start - now.
C1Claimed ==
    [][(AtWindow /\ SentinelWindow(TheWindow)) =>
         LET start == ClaimTime(TheWindow.start).time
             day == current_time_utc \div 86400000
             now_time == current_time_utc % 86400000
         IN IF start <= now_time
            THEN Appends("active", ClaimEntry(raw_events[i],
                     (day + 1) * 86400000 - current_time_utc))
            ELSE Appends("upcoming", ClaimEntry(raw_events[i],
                     day * 86400000 + start - current_time_utc))]_vars

\* the reference rule of C2 for a window that is not the sentinel
ClaimDaily(start, end, now) ==
    LET day == now \div 86400000
        now_time == now % 86400000
    IN IF start <= end
       THEN IF start <= now_time /\ now_time < end
            THEN [bucket |-> "active", delta |-> day * 86400000 + end - now]
            ELSE IF now_time < start
            THEN [bucket |-> "upcoming", delta |-> day * 86400000 + start - now]
            ELSE [bucket |-> "upcoming", delta |-> (day + 1) * 86400000 + start - now]
       ELSE IF now_time >= start \/ now_time < end
            THEN IF now_time < end
                 THEN [bucket |-> "active", delta |-> day * 86400000 + end - now]
                 ELSE [bucket |-> "active", delta |-> (day + 1) * 86400000 + end - now]
            ELSE [bucket |-> "upcoming", delta |-> day * 86400000 + start - now]

\* C2: a window with parseable start and end, the end not "24:00", is
\* classified by the reference rule (same-day: active iff start <= now_time
\* < end, else upcoming today or tomorrow; overnight: active iff now_time >=
\* start or now_time < end with the end today or tomorrow, else upcoming
\* today), and its one entry carries the formatted whole seconds.
C2Thm ==
    [][(AtWindow /\ PlainWindow(TheWindow)) =>
         LET r == ClaimDaily(ClaimTime(TheWindow.start).time,
                             ClaimTime(TheWindow.end).time, current_time_utc)
         IN Appends(r.bucket, ClaimEntry(raw_events[i], r.delta))]_vars

\* C2's case: {"23:00", "01:00"} evaluated at 00:30 is active with "30m"
C2Witness ==
    /\ pc = "schedule"
    /\ i = 1
    /\ j = 2
    /\ current_time_utc = Combine(Today, At(0, 30, 0, 0))
    /\ TimesOf(raw_events[1])[1] = ("start" :> <<"2", "3", ":", "0", "0">>)
                                   @@ ("end" :> <<"0", "1", ":", "0", "0">>)
    /\ active_events = <<[name |-> "Harvester", location |-> "Dam",
                          time_left |-> <<"3", "0", "EM">>]>>
    /\ upcoming_events = <<>>

\* the buckets of the daily evaluator for each window of the list on its
\* own, concatenated in the order of the list
RECURSIVE ClaimEachWindow(_, _, _)
ClaimEachWindow(event_obj, n, now) ==
    IF n = 0 THEN [active |-> <<>>, upcoming |-> <<>>]
    ELSE LET before == ClaimEachWindow(event_obj, n - 1, now)
             alone == get_events_schedule(
                          <<("times" :> <<TimesOf(event_obj)[n]>>) @@ event_obj>>, now)
         IN [active |-> before.active \o alone.active,
             upcoming |-> before.upcoming \o alone.upcoming]

RECURSIVE ClaimEachEvent(_, _)
ClaimEachEvent(events, now) ==
    IF events = <<>> THEN [active |-> <<>>, upcoming |-> <<>>]
    ELSE LET before == ClaimEachEvent(SubSeq(events, 1, Len(events) - 1), now)
             last == events[Len(events)]
             each == ClaimEachWindow(last, Len(TimesOf(last)), now)
         IN [active |-> before.active \o each.active,
             upcoming |-> before.upcoming \o each.upcoming]

\* C3 (as claimed): the buckets of a batch are the in-order concatenation of
\* the buckets of each window evaluated on its own, so a skipped window
\* changes nothing of what the other windows produce.
C3Claimed ==
    (pc = "returned" /\ evaluator = "schedule") =>
        LET each == ClaimEachEvent(raw_events, current_time_utc)
        IN /\ active_events = each.active
           /\ upcoming_events = each.upcoming

\* startTime and endTime are present, non-falsy and convertible
ClaimUsable(event_obj) ==
    /\ {"startTime", "endTime"} \subseteq DOMAIN event_obj
    /\ "int" \in DOMAIN event_obj.startTime
    /\ "int" \in DOMAIN event_obj.endTime
    /\ event_obj.startTime.int # 0
    /\ event_obj.endTime.int # 0

\* the events of a bucket by the rule of C4, in the order of the list
RECURSIVE ClaimExactBucket(_, _, _)
ClaimExactBucket(events, now, bucket) ==
    IF events = <<>> THEN <<>>
    ELSE LET e == Head(events)
             start == e.startTime.int
             end == e.endTime.int
             mine == IF start <= now /\ now < end
                     THEN IF bucket = "active"
                          THEN <<ClaimEntry(e, end - now)>> ELSE <<>>
                     ELSE IF start > now
                     THEN IF bucket = "upcoming"
                          THEN <<ClaimEntry(e, start - now)>> ELSE <<>>
                     ELSE <<>>
         IN mine \o ClaimExactBucket(Tail(events), now, bucket)

\* C4: in a batch of usable events, the events with start <= now < end are
\* the active bucket (remaining = end - now), those with start > now the
\* upcoming bucket (starting-in = start - now), the others are in neither,
\* and each bucket keeps the order of the batch.
C4Thm ==
    (evaluator = "exact" /\ \A k \in 1..Len(raw_events) : ClaimUsable(raw_events[k])) =>
        LET seen == SubSeq(raw_events, 1, i - 1)
        IN /\ active_events = ClaimExactBucket(seen, current_time_utc, "active")
           /\ upcoming_events = ClaimExactBucket(seen, current_time_utc, "upcoming")
           /\ pc \in {"returned", "done"} =>
                 /\ i = Len(raw_events) + 1
                 /\ outcome.active = active_events
                 /\ outcome.upcoming = upcoming_events

\* C4's case: one event active with "50s" and one upcoming with "5s" at T
C4Witness ==
    /\ pc = "done"
    /\ evaluator = "exact"
    /\ current_time_utc = T0
    /\ Len(raw_events) = 2
    /\ \A k \in 1..2 : ClaimUsable(raw_events[k])
    /\ response.dict.active = <<[name |-> "Harvester", location |-> "Dam",
                            time_left |-> <<"5", "0", "ES">>]>>
    /\ response.dict.upcoming = <<[name |-> "Unknown Event", location |-> "Unknown Location",
                              time_left |-> <<"5", "ES">>]>>

\* the exact evaluator is about to evaluate an event
AtEvent == pc = "exact" /\ i <= Len(raw_events)

\* the event's endTime converts to an instant end <= now
ClaimEnded(event_obj, now) ==
    /\ "endTime" \in DOMAIN event_obj
    /\ "int" \in DOMAIN event_obj.endTime
    /\ event_obj.endTime.int <= now

\* the event's startTime converts to an instant after now
ClaimStartsLater(event_obj, now) ==
    /\ "startTime" \in DOMAIN event_obj
    /\ "int" \in DOMAIN event_obj.startTime
    /\ event_obj.startTime.int > now

\* C5 (as claimed): an event whose end is <= now is appended to neither
\* bucket, whatever its startTime.
C5Claimed ==
    [][(AtEvent /\ ClaimEnded(raw_events[i], current_time_utc)) => AppendsNothing]_vars

\* C5 (amended): an event whose end is <= now is appended to neither bucket
\* unless its start is after now; then, its endTime not being 0, it is
\* appended to the upcoming bucket with starting-in = start - now.
C5Thm ==
    [][(AtEvent /\ ClaimEnded(raw_events[i], current_time_utc)) =>
         IF /\ ClaimStartsLater(raw_events[i], current_time_utc)
            /\ raw_events[i].endTime.int # 0
         THEN Appends("upcoming", ClaimEntry(raw_events[i],
                  raw_events[i].startTime.int - current_time_utc))
         ELSE AppendsNothing]_vars

\* C5's case: an event that began and ended before now was evaluated, and
\* neither bucket received it
C5Witness ==
    /\ pc = "exact"
    /\ i = 2
    /\ ClaimUsable(raw_events[1])
    /\ ClaimEnded(raw_events[1], current_time_utc)
    /\ raw_events[1].startTime.int < current_time_utc
    /\ active_events = <<>>
    /\ upcoming_events = <<>>

\* C6: the buckets of a batch are those of the batch without its events
\* whose startTime or endTime is absent, falsy or not convertible, and such
\* an event is appended to neither bucket.
C6Thm ==
    evaluator = "exact" =>
        LET kept == SelectSeq(SubSeq(raw_events, 1, i - 1), ClaimUsable)
            without == get_events_exact(kept, current_time_utc)
        IN /\ active_events = without.active
           /\ upcoming_events = without.upcoming
           /\ Len(active_events) + Len(upcoming_events) <= Len(kept)
           /\ pc \in {"returned", "done"} =>
                 /\ outcome.active = without.active
                 /\ outcome.upcoming = without.upcoming

\* C6's case: an event with startTime 0 before an active one
C6Witness ==
    /\ pc = "done"
    /\ evaluator = "exact"
    /\ Len(raw_events) = 2
    /\ "startTime" \in DOMAIN raw_events[1]
    /\ raw_events[1].startTime = [int |-> 0]
    /\ "endTime" \in DOMAIN raw_events[1]
    /\ raw_events[1].endTime = [int |-> T0 + 50000]
    /\ ClaimUsable(raw_events[2])
    /\ Len(response.dict.active) = 1
    /\ response.dict.upcoming = <<>>

\* C7: the first element alone decides the evaluator: both startTime and
\* endTime keys route the whole list to the exact evaluator, otherwise a
\* times key routes it to the daily evaluator, otherwise (or for an empty
\* list) the result is two empty buckets and no evaluator is invoked.
C7Thm ==
    (fetched = "ok" /\ pc \notin {"start", "dispatch"}) =>
        LET first_exact == /\ raw_events # <<>>
                           /\ {"startTime", "endTime"} \subseteq DOMAIN raw_events[1]
            first_times == raw_events # <<>> /\ "times" \in DOMAIN raw_events[1]
            returned == pc \in {"returned", "done"}
        IN IF first_exact
           THEN /\ evaluator = "exact"
                /\ returned =>
                     /\ i = Len(raw_events) + 1
                     /\ outcome.active
                            = get_events_exact(raw_events, current_time_utc).active
                     /\ outcome.upcoming
                            = get_events_exact(raw_events, current_time_utc).upcoming
           ELSE IF first_times
           THEN /\ evaluator = "schedule"
                /\ returned =>
                     /\ i = Len(raw_events) + 1
                     /\ outcome.active
                            = get_events_schedule(raw_events, current_time_utc).active
                     /\ outcome.upcoming
                            = get_events_schedule(raw_events, current_time_utc).upcoming
           ELSE /\ evaluator = "none"
                /\ returned
                /\ i = 1
                /\ j = 1
                /\ outcome = [raised |-> FALSE, active |-> <<>>, upcoming |-> <<>>]

\* C7's case: the first element has startTime, endTime and times, the second
\* only times, and the exact evaluator took the whole list
C7Witness ==
    /\ pc = "done"
    /\ evaluator = "exact"
    /\ Len(raw_events) = 2
    /\ {"startTime", "endTime", "times"} \subseteq DOMAIN raw_events[1]
    /\ "startTime" \notin DOMAIN raw_events[2]
    /\ "times" \in DOMAIN raw_events[2]
    /\ i = 3
    /\ Len(response.dict.active) = 1

\* C8: one fetch per request; a fetch that fails in transport, by status or
\* in decoding yields two empty buckets without raising, and the endpoint
\* answers with empty active and upcoming lists, never its error payload.
C8Thm ==
    /\ fetches <= 1
    /\ pc # "start" => fetches = 1
    /\ "tuple" \notin DOMAIN response
    /\ fetched \in FetchErrors =>
          /\ pc \in {"returned", "done"}
          /\ evaluator = "none"
          /\ outcome = [raised |-> FALSE, active |-> <<>>, upcoming |-> <<>>]
          /\ pc = "done" => /\ DOMAIN response = {"dict"}
                            /\ DOMAIN response.dict = {"active", "upcoming"}
                            /\ response.dict.active = <<>>
                            /\ response.dict.upcoming = <<>>

\* C8's case: the body could not be decoded and the endpoint has answered
C8Witness ==
    /\ pc = "done"
    /\ fetched = "decode"
    /\ fetches = 1
    /\ DOMAIN response = {"dict"}
    /\ DOMAIN response.dict = {"active", "upcoming"}
    /\ response.dict.active = <<>>

\* C9: every inline copy of the formatter yields the space-joined tokens
\* hours, minutes, seconds, each present iff its value is positive, seconds
\* also when hours and minutes are both zero; the result is never empty.
C9Thm ==
    pc = "formatted" =>
        /\ Len(time_left_strs) = 5
        /\ \A k \in 1..5 : time_left_strs[k] = ClaimFormat(total_seconds)
        /\ \A k \in 1..5 : time_left_strs[k] # <<>>
        /\ total_seconds = 0 => time_left_strs[1] = <<"0", "ES">>
        /\ total_seconds = 90 => time_left_strs[1] = <<"1", "EM", " ", "3", "0", "ES">>
        /\ total_seconds = 3661 =>
               time_left_strs[1] = <<"1", "CHE", " ", "1", "EM", " ", "1", "ES">>

\* C9's case: 3661 seconds formatted by every copy
C9Witness ==
    /\ pc = "formatted"
    /\ total_seconds = 3661
    /\ \A k \in 1..5 :
           time_left_strs[k] = <<"1", "CHE", " ", "1", "EM", " ", "1", "ES">>

\* what the daily evaluator computes for the window it is about to evaluate
TheResult ==
    ScheduleWindow(Get(raw_events[i], "name", "Unknown Event"),
                   Get(raw_events[i], "map", "Unknown Location"),
                   TheWindow, current_time_utc, end_time_for_comparison)

\* exactly one entry is appended, to exactly one bucket
AppendsOne ==
    \/ /\ Len(active_events') = Len(active_events) + 1
       /\ upcoming_events' = upcoming_events
    \/ /\ Len(upcoming_events') = Len(upcoming_events) + 1
       /\ active_events' = active_events

\* C10 (as claimed): a non-sentinel window with parseable start and end
\* appends exactly one entry to exactly one bucket, the duration formatted
\* is strictly positive and at most 24 hours, and the 'tomorrow' branch of a
\* not-active overnight window is never taken.
C10Claimed ==
    [][(AtWindow /\ PlainWindow(TheWindow)) =>
         /\ AppendsOne
         /\ TotalSeconds(TheResult.delta) > 0
         /\ TotalSeconds(TheResult.delta) <= 86400
         /\ TheResult.branch # "overnight-tomorrow"]_vars

\* C10 (amended): ... the time difference is strictly positive and at most
\* 24 hours, so the whole seconds formatted are between 0 and 86400, 0 when
\* less than a second remains ...
C10Thm ==
    [][(AtWindow /\ PlainWindow(TheWindow)) =>
         /\ AppendsOne
         /\ TheResult.delta > 0
         /\ TheResult.delta <= 86400000
         /\ TotalSeconds(TheResult.delta) >= 0
         /\ TotalSeconds(TheResult.delta) <= 86400
         /\ TheResult.branch # "overnight-tomorrow"]_vars

\* C10's case: half a second before its start, a window is upcoming with
\* zero whole seconds
C10Witness ==
    /\ pc = "schedule"
    /\ i = 1
    /\ j = 2
    /\ current_time_utc = Combine(Today, At(9, 59, 59, 500))
    /\ PlainWindow(TimesOf(raw_events[1])[1])
    /\ active_events = <<>>
    /\ upcoming_events = <<[name |-> "Harvester", location |-> "Dam",
                            time_left |-> <<"0", "ES">>]>>

====
